---- MODULE Spec2Model ----
(***************************************************************************)
(* Model of `cargo workspaces init` (src/cargo-workspaces/src/init.rs).    *)
(*                                                                         *)
(* State: the part of the file system the command touches (the root        *)
(* directory, the root Cargo.toml, the git repository, the .gitignore),    *)
(* the nested manifests under the root with what glob and `cargo metadata` *)
(* report for each, the fields of `Init`, and the position of Init::run.   *)
(*                                                                         *)
(* A TOML document is a sequence of entries [key, val] (toml_edit keeps    *)
(* insertion order and the text of everything it is not asked to change).  *)
(* A value is a record [kind, entries, items, str]: kind is "table",       *)
(* "array", "string" or "other" (any value of another shape, e.g. an       *)
(* integer or an inline table).  An array item is [val, prefix, suffix],   *)
(* the string and its decoration.  A path is a sequence of components (a   *)
(* component is a natural number, the code of a one-letter name); a string *)
(* is a sequence of character codes, 0 being the separator '/'.            *)
(* Paths are valid UTF-8.                                                  *)
(***************************************************************************)
EXTENDS Naturals, Sequences, FiniteSets

VARIABLES
    is_dir,           \* self.path is a directory
    cargo_toml,       \* the root manifest file: Absent, Garbage or a document
    git_repo,         \* `git init` has succeeded in the root
    gitignore,        \* the .gitignore file has been written
    nested,           \* the nested manifests: what glob and cargo metadata report
    root_meta,        \* what cargo metadata reports for a root manifest without [workspace]
    fault,            \* the file-system operation that fails in this environment
    git_env,          \* what running `git init` does in this environment
    resolver,         \* self.resolver
    pc,               \* the position of Init::run
    workspace_roots,  \* the HashSet of line 59
    document,         \* the toml_edit Document of line 72
    result,           \* what the run returned
    boot,             \* what new_ws_repo attempted in this run
    before,           \* the root manifest file when the run started
    runs,             \* the number of finished runs
    after             \* the root manifest file at the end of each finished run

vars == <<is_dir, cargo_toml, git_repo, gitignore, nested, root_meta, fault, git_env,
          resolver, pc, workspace_roots, document, result, boot, before, runs, after>>

(* Bounds of the model *)
MaxCands == 2
MaxRuns == 2

(***************************************************************************)
(* Values and documents                                                    *)
(***************************************************************************)
Table(es) == [kind |-> "table", entries |-> es, items |-> <<>>, str |-> ""]
Array(its) == [kind |-> "array", entries |-> <<>>, items |-> its, str |-> ""]
String(s) == [kind |-> "string", entries |-> <<>>, items |-> <<>>, str |-> s]
Other == [kind |-> "other", entries |-> <<>>, items |-> <<>>, str |-> ""]
Entry(k, v) == [key |-> k, val |-> v]

Absent == [kind |-> "absent", entries |-> <<>>]
Garbage == [kind |-> "garbage", entries |-> <<>>]
Doc(es) == [kind |-> "doc", entries |-> es]

Keys(es) == {es[i].key : i \in 1..Len(es)}
contains_key(es, k) == k \in Keys(es)
IndexOf(es, k) == CHOOSE i \in 1..Len(es) : es[i].key = k
get(es, k) == es[IndexOf(es, k)].val

(***************************************************************************)
(* Paths and strings                                                       *)
(***************************************************************************)
(* canonicalize(&self.path): the absolute path of the workspace root *)
ws == <<1, 2>>
(* the directory above the workspace root *)
Parent == <<1>>
(* the directory of the d-th nested package, relative to the root:        *)
(* "b", "a", "a/a", "a/a/a", ...                                          *)
RelDir(d) == IF d = 1 THEN <<2>> ELSE [i \in 1..(d - 1) |-> 1]
NestedDir(d) == ws \o RelDir(d)

(* Utf8Path::strip_prefix, component-wise *)
strip_prefix(p, base) ==
    IF Len(p) >= Len(base) /\ SubSeq(p, 1, Len(base)) = base
    THEN [ok |-> TRUE, rel |-> SubSeq(p, Len(base) + 1, Len(p))]
    ELSE [ok |-> FALSE, rel |-> <<>>]

(* Utf8Path::to_string: the components joined by '/' (code 0) *)
RECURSIVE to_string(_)
to_string(p) ==
    IF p = <<>> THEN <<>>
    ELSE IF Len(p) = 1 THEN <<p[1]>>
    ELSE <<p[1], 0>> \o to_string(Tail(p))

(* Ord for String: byte-wise lexicographic *)
StrLess(a, b) ==
    \E i \in 1..Len(b) :
        /\ \A j \in 1..(i - 1) : j <= Len(a) /\ a[j] = b[j]
        /\ (i > Len(a) \/ a[i] < b[i])

RECURSIVE InsertSorted(_, _)
InsertSorted(v, x) ==
    IF v = <<>> THEN <<x>>
    ELSE IF StrLess(x, Head(v)) THEN <<x>> \o v
    ELSE <<Head(v)>> \o InsertSorted(Tail(v), x)

unsorted(v) == v
(* Vec::sort *)
RECURSIVE sort(_)
sort(v) == IF v = <<>> THEN <<>> ELSE InsertSorted(sort(Tail(v)), Head(v))

(* Vec::remove(index) *)
remove(v, index) == SubSeq(v, 1, index - 1) \o SubSeq(v, index + 1, Len(v))

(***************************************************************************)
(* Resolver                                                                *)
(***************************************************************************)
Resolvers == {"V1", "V2", "V3"}
None == "None"

(* Resolver::name *)
name(r) == CASE r = "V1" -> "1" [] r = "V2" -> "2" [] r = "V3" -> "3"

(***************************************************************************)
(* The tree under the root: what glob and `cargo metadata` report          *)
(***************************************************************************)
(* a nested manifest the directory walk cannot read (a GlobError) *)
Unreadable == [readable |-> FALSE, ok |-> FALSE, root |-> <<>>]
(* a manifest `cargo metadata` fails on *)
Failed == [readable |-> TRUE, ok |-> FALSE, root |-> <<>>]
(* a manifest `cargo metadata` resolves to workspace root p *)
Resolved(p) == [readable |-> TRUE, ok |-> TRUE, root |-> p]

(* the outcomes, numbered: 1 unreadable, 2 failed, 3 the directory above,  *)
(* 4 the root, 4 + d the d-th nested directory                            *)
Outcome(k) ==
    CASE k = 1 -> Unreadable
      [] k = 2 -> Failed
      [] k = 3 -> Resolved(Parent)
      [] k = 4 -> Resolved(ws)
      [] OTHER -> Resolved(NestedDir(k - 4))
(* up to MaxCands nested manifests, in any combination of outcomes (the    *)
(* order of the manifests does not matter to the command)                  *)
Trees ==
    UNION {{[i \in 1..n |-> Outcome(t[i])] :
                t \in {u \in [1..n -> 1..(MaxCands + 4)] :
                          \A i \in 1..n : i < n => u[i] <= u[i + 1]}}
           : n \in 0..MaxCands}

(* The root manifest files the runs start from *)
Item(s, pre, suf) == [val |-> s, prefix |-> pre, suffix |-> suf]
Opt(b, e) == IF b THEN <<e>> ELSE <<>>
MembersValues == {Other, Array(<<>>), Array(<<Item(to_string(RelDir(1)), "", "")>>)}
WorkspaceTables ==
    {Table(Opt(r, Entry("resolver", String("1"))) \o ms)
        : r \in BOOLEAN, ms \in {<<>>} \cup {<<Entry("members", m)>> : m \in MembersValues}}
WorkspaceValues == {Other} \cup WorkspaceTables
package == Entry("package", Table(<<Entry("name", String("root"))>>))
lints == Entry("lints", Table(<<>>))
WithExclude(w) ==
    IF w.kind = "table" THEN Table(w.entries \o <<Entry("exclude", Other)>>) ELSE w
Manifests ==
    {Absent, Garbage, Doc(<<>>), Doc(<<package>>)}
    \cup {Doc(<<Entry("workspace", w)>>) : w \in WorkspaceValues}
    \cup {Doc(<<package, Entry("workspace", WithExclude(w)), lints>>) : w \in WorkspaceValues}

(***************************************************************************)
(* The initial states: a root that does not exist yet, or a directory with *)
(* any of the root manifests and any tree of nested manifests              *)
(***************************************************************************)
Faults == {"none", "current_dir", "create_dir_all", "glob_pattern", "canonicalize",
           "read_to_string", "write_create", "write_all"}
GitEnvs == {"missing", "fails", "works", "fails_ignore_unwritable", "works_ignore_unwritable"}
NoBoot == [dir |-> FALSE, git |-> "none", ignore |-> "none"]

Init ==
    /\ is_dir \in BOOLEAN
    /\ root_meta \in {"self", "parent", "fail"}
    /\ fault \in Faults
    /\ git_env \in GitEnvs
    /\ IF is_dir
       THEN /\ cargo_toml \in Manifests
            /\ nested \in Trees
            /\ fault \notin {"current_dir", "create_dir_all"}
            /\ git_env = "works"
       ELSE /\ cargo_toml = Absent
            /\ nested = <<>>
    /\ git_repo = FALSE
    /\ gitignore = FALSE
    /\ resolver = None
    /\ pc = "idle"
    /\ workspace_roots = {}
    /\ document = Doc(<<>>)
    /\ result = "none"
    /\ boot = NoBoot
    /\ before = cargo_toml
    /\ runs = 0
    /\ after = <<>>

(***************************************************************************)
(* Init::run, lines 48-52: the command starts with its parsed arguments    *)
(***************************************************************************)
run(r) ==
    /\ pc = "idle"
    /\ runs < MaxRuns
    /\ resolver' = r
    /\ before' = cargo_toml
    /\ result' = "running"
    /\ boot' = NoBoot
    /\ workspace_roots' = {}
    /\ document' = Doc(<<>>)
    /\ pc' = IF is_dir THEN "glob" ELSE "new_ws_repo"
    /\ UNCHANGED <<is_dir, cargo_toml, git_repo, gitignore, nested, root_meta, fault,
                   git_env, runs, after>>

(***************************************************************************)
(* Init::new_ws_repo, lines 145-177                                        *)
(***************************************************************************)
(* utils::git: Err when the command cannot be run, else its exit status *)
git(env) ==
    CASE env = "missing" -> "Err"
      [] env \in {"fails", "fails_ignore_unwritable"} -> "failure"
      [] OTHER -> "success"
(* fs::write(&gitignore_path, ..) *)
write_gitignore(env) == env \notin {"fails_ignore_unwritable", "works_ignore_unwritable"}

new_ws_repo_result ==
    IF fault = "current_dir" THEN [res |-> "Err_Io", boot |-> NoBoot]
    ELSE IF fault = "create_dir_all" THEN [res |-> "Err_Io", boot |-> NoBoot]
    ELSE IF git(git_env) = "Err"
    THEN [res |-> "Err_Git", boot |-> [dir |-> TRUE, git |-> "Err", ignore |-> "none"]]
    ELSE [res |-> "Ok",
          boot |-> [dir |-> TRUE, git |-> git(git_env),
                    ignore |-> IF write_gitignore(git_env) THEN "written" ELSE "failed"]]

new_ws_repo ==
    /\ pc = "new_ws_repo"
    /\ LET r == new_ws_repo_result IN
        /\ boot' = r.boot
        /\ is_dir' = r.boot.dir
        /\ git_repo' = (r.boot.git = "success")
        /\ gitignore' = (r.boot.ignore = "written")
        /\ IF r.res = "Ok"
           THEN /\ pc' = "glob"
                /\ UNCHANGED <<result, runs, after>>
           ELSE /\ pc' = "done"
                /\ result' = r.res
                /\ runs' = runs + 1
                /\ after' = Append(after, cargo_toml)
    /\ UNCHANGED <<cargo_toml, nested, root_meta, fault, git_env, resolver,
                   workspace_roots, document, before>>

(***************************************************************************)
(* Discovery, lines 57-68                                                  *)
(***************************************************************************)
(* cargo metadata on the root manifest m: a manifest with a `workspace`    *)
(* key is its own workspace root; one with only a package may belong to a  *)
(* workspace in the directory above; a document with neither is rejected.  *)
(* What cargo makes of a file toml_edit cannot parse is left open.         *)
metadata_root(m) ==
    IF root_meta = "fail" THEN Failed
    ELSE IF m.kind = "doc" /\ contains_key(m.entries, "workspace")
    THEN Resolved(ws)
    ELSE IF m.kind = "doc" /\ ~contains_key(m.entries, "package")
    THEN Failed
    ELSE IF root_meta = "self" THEN Resolved(ws) ELSE Resolved(Parent)

(* glob(..).filter_map(|e| e.ok()): the manifests the walk yields when the *)
(* root manifest is m, each with the result of MetadataCommand::exec on it *)
pkgs(m) ==
    (IF m.kind = "absent" THEN {} ELSE {metadata_root(m)})
    \cup {nested[i] : i \in {j \in 1..Len(nested) : nested[j].readable}}

exec_never_fails(ps) == FALSE
(* line 65: the `?` on the result of exec *)
exec_failed(ps) == \E m \in ps : ~m.ok

discover ==
    /\ pc = "glob"
    /\ IF fault = "glob_pattern"
       THEN /\ pc' = "done"
            /\ result' = "Err_Pattern"
            /\ runs' = runs + 1
            /\ after' = Append(after, cargo_toml)
            /\ UNCHANGED workspace_roots
       ELSE IF exec_failed(pkgs(cargo_toml))
       THEN /\ pc' = "done"
            /\ result' = "Err_Init"
            /\ runs' = runs + 1
            /\ after' = Append(after, cargo_toml)
            /\ UNCHANGED workspace_roots
       ELSE /\ workspace_roots' = {m.root : m \in pkgs(cargo_toml)}
            /\ pc' = "load"
            /\ UNCHANGED <<result, runs, after>>
    /\ UNCHANGED <<is_dir, cargo_toml, git_repo, gitignore, nested, root_meta, fault,
                   git_env, resolver, document, boot, before>>

(***************************************************************************)
(* Loading the root manifest, lines 70-76                                  *)
(***************************************************************************)
load ==
    /\ pc = "load"
    /\ IF fault = "canonicalize"
          \/ (fault = "read_to_string" /\ cargo_toml.kind # "absent")
       THEN /\ pc' = "done"
            /\ result' = "Err_Io"
            /\ runs' = runs + 1
            /\ after' = Append(after, cargo_toml)
            /\ UNCHANGED document
       ELSE IF cargo_toml.kind = "garbage"
       THEN /\ pc' = "done"
            /\ result' = "Err_Toml"
            /\ runs' = runs + 1
            /\ after' = Append(after, cargo_toml)
            /\ UNCHANGED document
       ELSE /\ document' = IF cargo_toml.kind = "absent" THEN Doc(<<>>) ELSE cargo_toml
            /\ pc' = "merge"
            /\ UNCHANGED <<result, runs, after>>
    /\ UNCHANGED <<is_dir, cargo_toml, git_repo, gitignore, nested, root_meta, fault,
                   git_env, resolver, workspace_roots, boot, before>>

(***************************************************************************)
(* The merge, lines 78-137                                                 *)
(***************************************************************************)
put_rebuilding(es, k, v) == <<Entry(k, v)>>
(* assignment through the &mut an entry returns *)
put(es, k, v) == [es EXCEPT ![IndexOf(es, k)].val = v]
or_overwrite(es, k, v) == IF contains_key(es, k) THEN put(es, k, v) ELSE Append(es, Entry(k, v))
(* Table::entry(k).or_insert_with(..): a missing key is appended *)
or_insert(es, k, v) == IF contains_key(es, k) THEN es ELSE Append(es, Entry(k, v))
(* Item::as_table_mut, Item::as_array_mut *)
as_table_mut(v) == v.kind = "table"
as_array_mut(v) == v.kind = "array"

(* line 78 *)
is_root_package(doc) == contains_key(doc.entries, "package")

never_initialized(items) == FALSE
initialized_when_empty(items) == items = <<>>
(* line 102: !workspace_members.is_empty() *)
already_initialized(items) == items # <<>>

(* lines 107-111: the roots in the HashSet's iteration order, those under  *)
(* ws kept as relative path strings                                        *)
RECURSIVE collect(_)
collect(order) ==
    IF order = <<>> THEN <<>>
    ELSE LET m == strip_prefix(Head(order), ws) IN
         (IF m.ok THEN <<to_string(m.rel)>> ELSE <<>>) \o collect(Tail(order))

keep_root(members, is_pkg) == members
(* lines 113-117 *)
remove_root(members, is_pkg) ==
    IF ~is_pkg /\ \E i \in 1..Len(members) : members[i] = <<>>
    THEN remove(members, CHOOSE i \in 1..Len(members) :
                            /\ members[i] = <<>>
                            /\ \A j \in 1..(i - 1) : members[j] # <<>>)
    ELSE members

(* lines 123-129: usize::saturating_sub and the decoration of each entry *)
saturating_sub(a, b) == IF a >= b THEN a - b ELSE 0
decorated(members) ==
    LET max_member == saturating_sub(Len(members), 1) IN
    [i \in 1..Len(members) |->
        Item(members[i], "\n    ", IF i - 1 = max_member THEN ",\n" ELSE "")]

(* line 133: self.resolver.or(Some(Resolver::V3)) *)
resolver_or(r) == IF r = None THEN "V3" ELSE r

(* lines 78-137 on a loaded document, for one iteration order of the set *)
merge_document(doc, order, r) ==
    LET is_pkg == is_root_package(doc)
        top == or_insert(doc.entries, "workspace", Table(<<>>))
        workspace == get(top, "workspace")
        wes == or_insert(workspace.entries, "members", Array(<<>>))
        workspace_members == get(wes, "members")
        members == sort(remove_root(collect(order), is_pkg))
        extended == Array(workspace_members.items \o decorated(members))
        wes2 == or_insert(put(wes, "members", extended), "resolver",
                          String(name(resolver_or(r))))
    IN  IF ~as_table_mut(workspace)
        THEN [status |-> "Err_WorkspaceBadFormat", doc |-> doc]
        ELSE IF ~as_array_mut(workspace_members)
        THEN [status |-> "Err_WorkspaceBadFormat", doc |-> doc]
        ELSE IF already_initialized(workspace_members.items)
        THEN [status |-> "Ok_already", doc |-> doc]
        ELSE [status |-> "merged", doc |-> Doc(put(top, "workspace", Table(wes2)))]

(* the orders in which a HashSet may yield its elements *)
Orders(S) ==
    {o \in [1..Cardinality(S) -> S] : \A i, j \in 1..Cardinality(S) : i # j => o[i] # o[j]}

merge ==
    /\ pc = "merge"
    /\ \E order \in Orders(workspace_roots) :
        LET m == merge_document(document, order, resolver) IN
        IF m.status = "merged"
        THEN /\ document' = m.doc
             /\ pc' = "write"
             /\ UNCHANGED <<result, runs, after>>
        ELSE /\ pc' = "done"
             /\ result' = m.status
             /\ runs' = runs + 1
             /\ after' = Append(after, cargo_toml)
             /\ UNCHANGED document
    /\ UNCHANGED <<is_dir, cargo_toml, git_repo, gitignore, nested, root_meta, fault,
                   git_env, resolver, workspace_roots, boot, before>>

(***************************************************************************)
(* The write, lines 139-142                                                *)
(***************************************************************************)
(* fs::write is File::create (which truncates) followed by write_all: a   *)
(* failure of create leaves the file as it was, a failure of write_all    *)
(* leaves it empty or partly written                                      *)
fs_write(file, contents) ==
    CASE fault = "write_create" -> {[res |-> "Err_Io", file |-> file]}
      [] fault = "write_all" -> {[res |-> "Err_Io", file |-> Doc(<<>>)],
                                 [res |-> "Err_Io", file |-> Garbage]}
      [] OTHER -> {[res |-> "Ok_initialized", file |-> contents]}

write ==
    /\ pc = "write"
    /\ \E w \in fs_write(cargo_toml, document) :
        /\ cargo_toml' = w.file
        /\ result' = w.res
    /\ pc' = "done"
    /\ runs' = runs + 1
    /\ after' = Append(after, cargo_toml')
    /\ UNCHANGED <<is_dir, git_repo, gitignore, nested, root_meta, fault, git_env,
                   resolver, workspace_roots, document, boot, before>>

(* the command is invoked again *)
again ==
    /\ pc = "done"
    /\ runs < MaxRuns
    /\ pc' = "idle"
    /\ UNCHANGED <<is_dir, cargo_toml, git_repo, gitignore, nested, root_meta, fault,
                   git_env, resolver, workspace_roots, document, result, boot, before,
                   runs, after>>

Next ==
    \/ \E r \in Resolvers \cup {None} : run(r)
    \/ new_ws_repo
    \/ discover
    \/ load
    \/ merge
    \/ write
    \/ again

Spec == Init /\ [][Next]_vars

(***************************************************************************)
(* Reading a manifest file, for the properties                             *)
(***************************************************************************)
(* the document a run loads from manifest file m *)
Loaded(m) == IF m.kind = "absent" THEN Doc(<<>>) ELSE m
(* the entries of m's workspace table *)
WorkspaceEntries(m) ==
    IF m.kind = "doc" /\ contains_key(m.entries, "workspace")
       /\ get(m.entries, "workspace").kind = "table"
    THEN get(m.entries, "workspace").entries
    ELSE <<>>
(* the items of m's workspace.members list *)
MembersItems(m) ==
    IF contains_key(WorkspaceEntries(m), "members")
       /\ get(WorkspaceEntries(m), "members").kind = "array"
    THEN get(WorkspaceEntries(m), "members").items
    ELSE <<>>
(* the strings of m's workspace.members list *)
Members(m) == [i \in 1..Len(MembersItems(m)) |-> MembersItems(m)[i].val]
HasMembers(m) == MembersItems(m) # <<>>
(* the metadata service fails for a candidate of the run *)
CandidateFails == \E m \in pkgs(before) : ~m.ok
Succeeded == result \in {"Ok_initialized", "Ok_already"}
Errored == pc = "done" /\ ~Succeeded

(***************************************************************************)
(* C1: a run that starts from a root manifest whose workspace.members list *)
(* is not empty never writes the root manifest: at every point of the run  *)
(* and after it the file is what it was when the run started, whatever was *)
(* discovered and whatever resolver was requested.                         *)
(***************************************************************************)
C1_NoWriteWhenInitialized == HasMembers(before) => cargo_toml = before

(* a finished run on such a manifest that discovered a root which is not a *)
(* member yet, with a resolver requested and none in the manifest          *)
C1_Witness ==
    /\ pc = "done"
    /\ HasMembers(before)
    /\ result = "Ok_already"
    /\ resolver = "V2"
    /\ ~contains_key(WorkspaceEntries(before), "resolver")
    /\ NestedDir(2) \in workspace_roots

C3_Original ==
    (Len(after) >= 2 /\ fault = "none" /\ git_env = "works") => after[2] = after[1]

KeptRoots ==
    {to_string(RelDir(d)) : d \in {c \in 1..MaxCands : NestedDir(c) \in workspace_roots}}
    \cup (IF ws \in workspace_roots /\ contains_key(Loaded(before).entries, "package")
          THEN {<<>>} ELSE {})

(***************************************************************************)
(* C5: a run that finds the members list empty at load writes one entry    *)
(* for each distinct discovered package root, i.e. each distinct resolved  *)
(* root that lies under the workspace root (the root itself only when the  *)
(* loaded manifest has a package table): N such roots give exactly N       *)
(* entries, each the root-relative path of one of them, in strictly        *)
(* ascending lexicographic order, hence without duplicates, also when      *)
(* several candidate manifests resolve to the same root.                   *)
(***************************************************************************)
C5_MembersSortedDistinct ==
    (pc = "done" /\ result = "Ok_initialized") =>
        LET M == Members(cargo_toml) IN
        /\ Len(M) = Cardinality(KeptRoots)
        /\ {M[i] : i \in 1..Len(M)} = KeptRoots
        /\ \A i, j \in 1..Len(M) : i < j => StrLess(M[i], M[j])

(* two nested manifests resolve to the same root and the root is a package *)
C5_Witness ==
    /\ pc = "done"
    /\ result = "Ok_initialized"
    /\ Len(nested) = 2
    /\ nested[1] = Resolved(NestedDir(1))
    /\ nested[2] = nested[1]
    /\ Len(Members(cargo_toml)) = 2

(***************************************************************************)
(* C6: after a run that populates the members list, when the loaded root   *)
(* manifest has a package table and the root is among the resolved roots   *)
(* the list holds the empty path exactly once; when it has no package      *)
(* table the list holds no empty path; every other resolved root under the *)
(* workspace root is in the list either way.                               *)
(***************************************************************************)
C6_RootSelfMembership ==
    (pc = "done" /\ result = "Ok_initialized") =>
        LET M == Members(cargo_toml)
            pkg == contains_key(Loaded(before).entries, "package")
        IN
        /\ (pkg /\ ws \in workspace_roots) =>
                Cardinality({i \in 1..Len(M) : M[i] = <<>>}) = 1
        /\ ~pkg => \A i \in 1..Len(M) : M[i] # <<>>
        /\ \A d \in 1..MaxCands :
                NestedDir(d) \in workspace_roots =>
                    \E i \in 1..Len(M) : M[i] = to_string(RelDir(d))

(* the root resolved, has no package table, and a nested root was kept *)
C6_Witness ==
    /\ pc = "done"
    /\ result = "Ok_initialized"
    /\ ~contains_key(Loaded(before).entries, "package")
    /\ ws \in workspace_roots
    /\ NestedDir(2) \in workspace_roots
    /\ Members(cargo_toml) = <<to_string(RelDir(2))>>

(***************************************************************************)
(* C7: after a run that writes, workspace.resolver in the written manifest *)
(* is the value the loaded manifest already had, if it had one; otherwise  *)
(* the value the caller requested; otherwise, with none requested, "3".    *)
(***************************************************************************)
C7_ResolverKeptOrSet ==
    (pc = "done" /\ result = "Ok_initialized") =>
        /\ contains_key(WorkspaceEntries(cargo_toml), "resolver")
        /\ get(WorkspaceEntries(cargo_toml), "resolver") =
              IF contains_key(WorkspaceEntries(before), "resolver")
              THEN get(WorkspaceEntries(before), "resolver")
              ELSE IF resolver = "V1" THEN String("1")
              ELSE IF resolver = "V2" THEN String("2")
              ELSE String("3")

(* a writing run that requested resolver 2 on a manifest that has "1" *)
C7_Witness ==
    /\ pc = "done"
    /\ result = "Ok_initialized"
    /\ resolver = "V2"
    /\ contains_key(WorkspaceEntries(before), "resolver")
    /\ get(WorkspaceEntries(cargo_toml), "resolver") = String("1")

(***************************************************************************)
(* C8 as stated: every run that ends in an error leaves the root manifest  *)
(* file exactly as it was when the run started.                            *)
(***************************************************************************)
C8_Original == Errored => cargo_toml = before

(***************************************************************************)
(* C9 as stated: once new_ws_repo has created the directory, it attempts   *)
(* both git init and the ignore file whatever the other's outcome, returns *)
(* success, and the run goes on to discovery.                              *)
(***************************************************************************)
C9_Original ==
    boot.dir =>
        /\ boot.git \in {"success", "failure"}
        /\ boot.ignore \in {"written", "failed"}
        /\ result # "Err_Git"

(* the entries of es whose key is not in K, in order *)
Without(es, K) ==
    LET Keep(e) == e.key \notin K IN SelectSeq(es, Keep)

(***************************************************************************)
(* C10: after a run that writes over an existing root manifest, every      *)
(* top-level entry other than `workspace` is unchanged and in the same     *)
(* order, `workspace` stays where it was (or is added), and inside the     *)
(* workspace table every key other than `members` and `resolver` is        *)
(* unchanged; the only keys added are `workspace`, `members`, `resolver`.  *)
(***************************************************************************)
C10_MergeFrame ==
    (pc = "done" /\ result = "Ok_initialized" /\ before.kind = "doc") =>
        /\ Without(cargo_toml.entries, {"workspace"}) = Without(before.entries, {"workspace"})
        /\ Keys(cargo_toml.entries) = Keys(before.entries) \cup {"workspace"}
        /\ contains_key(before.entries, "workspace") =>
                IndexOf(cargo_toml.entries, "workspace") = IndexOf(before.entries, "workspace")
        /\ Without(WorkspaceEntries(cargo_toml), {"members", "resolver"})
              = Without(WorkspaceEntries(before), {"members", "resolver"})
        /\ Keys(WorkspaceEntries(cargo_toml))
              = Keys(WorkspaceEntries(before)) \cup {"members", "resolver"}

(* a writing run over a manifest with entries before and after `workspace` *)
(* and another key inside it                                               *)
C10_Witness ==
    /\ pc = "done"
    /\ result = "Ok_initialized"
    /\ Len(before.entries) = 3
    /\ contains_key(WorkspaceEntries(before), "exclude")
    /\ ~contains_key(WorkspaceEntries(before), "members")
    /\ Len(Members(cargo_toml)) = 2

====
